---- MODULE Spec2Model ----
(***************************************************************************)
(* Model of src/utils/aiAnalysis.js: extractTextFromPDF,                   *)
(* extractTextFromImage and generateAIAnalysis.                            *)
(*                                                                         *)
(* A JavaScript value is a record tagged by its type (field t).  A string  *)
(* is a sequence of code units, each written as a one-character TLA+       *)
(* string; a fixed literal of the source is abbreviated to one unit that   *)
(* carries the literal's text.                                             *)
(***************************************************************************)
EXTENDS Integers, Sequences, FiniteSets, TLC

\* ------------------------------------------------------------------ bounds
NumCalls == 2       \* concurrent invocations of an extractor
MaxClock == 1       \* last millisecond the clock reaches
MaxLen   == 3002    \* longest extracted text handed to generateAIAnalysis

\* ------------------------------------------------------- program constants
MinTextLength == 30      \* extractedText.length < 30
TextLimit     == 3000    \* extractedText.slice(0, 3000)

VARIABLES
  \* extractTextFromPDF, one entry per invocation
  clock, fs, pdfPc, pdfUrl, pdfData, tempPath, pdfWritten, pdfBuffer,
  pdfResult,
  \* extractTextFromImage, one entry per invocation
  OCR_SPACE_API_KEY, ocrPc, imageUrl, ocrSent, ocrResponse, ocrResult,
  \* generateAIAnalysis
  GEMINI_API_KEY, genPc, extractedText, genSent, genResponse, genResult

pdfVars == <<clock, fs, pdfPc, pdfUrl, pdfData, tempPath, pdfWritten,
             pdfBuffer, pdfResult>>
ocrVars == <<OCR_SPACE_API_KEY, ocrPc, imageUrl, ocrSent, ocrResponse,
             ocrResult>>
genVars == <<GEMINI_API_KEY, genPc, extractedText, genSent, genResponse,
             genResult>>
vars    == <<pdfVars, ocrVars, genVars>>

\* ------------------------------------------------------- JavaScript values
Undefined == [t |-> "undefined"]
Null      == [t |-> "null"]
Str(s)    == [t |-> "string", v |-> s]
Num(n)    == [t |-> "number", v |-> n]
Obj(f)    == [t |-> "object", v |-> f]
Arr(a)    == [t |-> "array", v |-> a]

Nullish(x) == x.t \in {"undefined", "null"}

\* ToBoolean: undefined, null, "" and 0 are falsy.
Truthy(x) ==
  /\ ~Nullish(x)
  /\ ~(x.t = "string" /\ Len(x.v) = 0)
  /\ ~(x.t = "number" /\ x.v = 0)

\* x.name on a value that is not undefined/null.
Prop(x, name) ==
  IF x.t = "object" /\ name \in DOMAIN x.v THEN x.v[name] ELSE Undefined

\* x[i], i a 0-based index, on a value that is not undefined/null.
Index(x, i) ==
  CASE x.t = "array" /\ i < Len(x.v)  -> x.v[i + 1]
    [] x.t = "string" /\ i < Len(x.v) -> Str(<<x.v[i + 1]>>)
    [] OTHER                          -> Undefined

\* x?.name and x?.[i]
OptProp(x, name) == IF Nullish(x) THEN Undefined ELSE Prop(x, name)
OptIndex(x, i)   == IF Nullish(x) THEN Undefined ELSE Index(x, i)

\* a || b
OrElse(a, b) == IF Truthy(a) THEN a ELSE b

WhiteSpace == {" ", "\n"}

\* String.prototype.trim on a sequence of code units.
RECURSIVE TrimStart(_)
TrimStart(s) ==
  IF Len(s) > 0 /\ s[1] \in WhiteSpace THEN TrimStart(Tail(s)) ELSE s

RECURSIVE TrimEnd(_)
TrimEnd(s) ==
  IF Len(s) > 0 /\ s[Len(s)] \in WhiteSpace
  THEN TrimEnd(SubSeq(s, 1, Len(s) - 1)) ELSE s

Trim(s) == TrimEnd(TrimStart(s))

\* String.prototype.slice(0, n) for n >= 0.
SliceFromStart(s, n) == SubSeq(s, 1, IF Len(s) < n THEN Len(s) ELSE n)

\* Promise settlements.
Pending      == [state |-> "pending"]
Fulfilled(v) == [state |-> "fulfilled", value |-> v]
Rejected(e)  == [state |-> "rejected", reason |-> e]

\* ====================================================== generateAIAnalysis
WarningMessage  == Str(<<"⚠ No readable text found in report.">>)
NoOutputMessage == Str(<<"⚠ Gemini returned no output.">>)
FallbackMessage ==
  Str(<<"⚠ AI analysis failed or took too long. Please try again later.">>)

\* The prompt template up to and including "Report:\n".
PromptHead ==
  "\nYou are an AI medical assistant. Analyze this lab report ... Report:\n"

ApiBase ==
  "https://generativelanguage.googleapis.com/v1beta/models/gemini-1.5-flash-latest:generateContent?key="

\* if (!GEMINI_API_KEY)
KeyMissing_OnlyUndefined(key) == key.t = "undefined"
KeyMissing(key) == ~Truthy(key)

\* !extractedText || extractedText.length < 30
TooShort_Inclusive(text) ==
  \/ ~Truthy(text)
  \/ text.t = "string" /\ Len(text.v) <= MinTextLength
TooShort(text) ==
  \/ ~Truthy(text)
  \/ text.t = "string" /\ Len(text.v) < MinTextLength

\* extractedText.slice(0, 3000)
LimitedText_OneMore(text) == SliceFromStart(text.v, TextLimit + 1)
LimitedText(text) == SliceFromStart(text.v, TextLimit)

\* The template literal: head, ${limitedText}, newline.
Prompt(limitedText) == <<PromptHead>> \o limitedText \o <<"\n">>

GenRequest(key, text) ==
  [ url     |-> <<ApiBase>> \o key.v,
    body    |-> [ contents |->
                    << [ role  |-> "user",
                         parts |-> << [text |-> Prompt(LimitedText(text))] >> ] >>,
                  generationConfig |->
                    [ temperature |-> "0.7", topK |-> 40, topP |-> "0.95",
                      maxOutputTokens |-> 512 ] ],
    headers |-> [ContentType |-> "application/json"],
    timeout |-> 30000 ]

\* response.data?.candidates?.[0]?.content?.parts?.[0]?.text || "no output"
AiText_NoDefault(data) ==
  OptProp(OptIndex(OptProp(OptProp(OptIndex(OptProp(data, "candidates"), 0),
    "content"), "parts"), 0), "text")
AiText(data) ==
  OrElse(
    OptProp(OptIndex(OptProp(OptProp(OptIndex(OptProp(data, "candidates"), 0),
      "content"), "parts"), 0), "text"),
    NoOutputMessage)

\* catch (err) { ...; return { feedback: fallback } }
GenCatch_Rethrow(err) == Rejected(err)
GenCatch(err) == Fulfilled([feedback |-> FallbackMessage])

Alphabet == <<"a", "7", " ">>
Patterns == {1, 2}

\* A text of n code units whose content depends on the position.
Text(n, k) == [i \in 1..n |-> Alphabet[((i * k) % 3) + 1]]

Lengths ==
  {0, 1, MinTextLength - 1, MinTextLength, MinTextLength + 1,
   TextLimit - 1, TextLimit} \cup (TextLimit + 1)..MaxLen

GenInputs ==
  {Undefined, Null} \cup {Str(Text(n, k)) : n \in Lengths, k \in Patterns}

\* process.env.GEMINI_API_KEY: unset, set to "", or set.
GenKeys == {Undefined, Str(<<>>), Str(<<"K">>)}

Candidates(cs) == Obj([candidates |-> Arr(cs)])
Content(parts) == Obj([content |-> Obj([role |-> Str(<<"model">>), parts |-> Arr(parts)])])
TextPart(s)    == Obj([text |-> Str(s)])

\* Bodies a 2xx response of the generation endpoint may carry.
GenResponses ==
  { Undefined,
    Str(<<"o", "k">>),
    Obj([promptFeedback |-> Obj([blockReason |-> Str(<<"SAFETY">>)])]),
    Obj([candidates |-> Null]),
    Candidates(<<>>),
    Candidates(<<Null>>),
    Candidates(<<Obj([finishReason |-> Str(<<"MAX_TOKENS">>)])>>),
    Candidates(<<Obj([content |-> Obj([role |-> Str(<<"model">>)])])>>),
    Candidates(<<Content(<<>>)>>),
    Candidates(<<Content(<<Obj([inlineData |-> Null])>>)>>),
    Candidates(<<Content(<<TextPart(<<>>)>>)>>),
    Candidates(<<Content(<<TextPart(<<"o", "k">>)>>)>>),
    Candidates(<<Content(<<TextPart(<<>>), TextPart(<<"2", "n", "d">>)>>)>>),
    Candidates(<<Content(<<TextPart(<<"1">>), TextPart(<<"2">>)>>),
                 Content(<<TextPart(<<"3">>)>>)>>) }

\* Ways axios.post rejects.
GenErrors == {"HTTP error", "network error", "timeout"}

NoResponse == [ok |-> FALSE, err |-> "none"]

\* generateAIAnalysis(extractedText), up to the await of axios.post.
GenCall(text) ==
  /\ genPc = "idle"
  /\ extractedText' = text
  /\ IF KeyMissing(GEMINI_API_KEY)
     THEN /\ genResult' = GenCatch("Gemini API key missing.")
          /\ genPc' = "done"
          /\ UNCHANGED genSent
     ELSE IF TooShort(text)
     THEN /\ genResult' = Fulfilled([feedback |-> WarningMessage])
          /\ genPc' = "done"
          /\ UNCHANGED genSent
     ELSE /\ genSent' = Append(genSent, GenRequest(GEMINI_API_KEY, text))
          /\ genPc' = "awaiting"
          /\ UNCHANGED genResult
  /\ UNCHANGED <<GEMINI_API_KEY, genResponse>>
  /\ UNCHANGED <<pdfVars, ocrVars>>

\* axios.post fulfils: the rest of the try block.
GenResponse(data) ==
  /\ genPc = "awaiting"
  /\ genResponse' = [ok |-> TRUE, data |-> data]
  /\ genResult' = Fulfilled([feedback |-> AiText(data)])
  /\ genPc' = "done"
  /\ UNCHANGED <<GEMINI_API_KEY, extractedText, genSent>>
  /\ UNCHANGED <<pdfVars, ocrVars>>

\* axios.post rejects: the catch block.
GenFail(err) ==
  /\ genPc = "awaiting"
  /\ genResponse' = [ok |-> FALSE, err |-> err]
  /\ genResult' = GenCatch(err)
  /\ genPc' = "done"
  /\ UNCHANGED <<GEMINI_API_KEY, extractedText, genSent>>
  /\ UNCHANGED <<pdfVars, ocrVars>>

GenNext ==
  \/ \E text \in GenInputs : GenCall(text)
  \/ \E data \in GenResponses : GenResponse(data)
  \/ \E err \in GenErrors : GenFail(err)


\* ====================================================== extractTextFromPDF
Calls == 1..NumCalls

\* A fragment's T is URI-encoded: the unit "%20" is an escaped space, the
\* unit "%" an escape sequence cut short.
DecodeThrows(T) == \E i \in 1..Len(T) : T[i] = "%"
DecodeURIComponent(T) == [i \in 1..Len(T) |-> IF T[i] = "%20" THEN " " ELSE T[i]]

\* Array.prototype.join
RECURSIVE Join(_, _)
Join(strs, sep) ==
  IF Len(strs) = 0 THEN <<>>
  ELSE IF Len(strs) = 1 THEN strs[1]
  ELSE strs[1] \o sep \o Join(Tail(strs), sep)

\* What the bytes of a download are to the parser: a PDF with pages of text
\* fragments, or something it cannot parse.
Pdf(pages) == [kind |-> "pdf", Pages |-> pages]
Garbage    == [kind |-> "garbage"]
NoFile     == [kind |-> "absent"]
NoData     == [kind |-> "none"]
Failed     == [kind |-> "failed"]

ReportPdf ==
  Pdf(<< << <<"%20", "H", "b">>, <<"1", "2">> >>, << <<"o", "k", "%20">> >> >>)
BadEscapePdf == Pdf(<< << <<"N", "a">>, <<"%">> >> >>)

\* What each URL serves; downloading "https://down/x.pdf" always fails.
PdfUrls == {"https://h/report.pdf", "https://h/bad.pdf", "https://h/page.html",
            "https://down/x.pdf"}
Served(url) ==
  CASE url = "https://h/report.pdf" -> ReportPdf
    [] url = "https://h/bad.pdf"    -> BadEscapePdf
    [] url = "https://h/page.html"  -> Garbage
    [] OTHER                        -> Failed

\* `/tmp/pdf_${Date.now()}.pdf`
TempPath(now) == <<"/tmp/pdf_", now, ".pdf">>
NoPath == <<>>
Paths == {TempPath(now) : now \in 0..MaxClock}

\* pdfData.Pages.map(page => page.Texts.map(t => decode(t.R[0].T)).join(" "))
\*   .join(" ")
TextThrows(doc) ==
  \E i \in 1..Len(doc.Pages) : \E j \in 1..Len(doc.Pages[i]) :
     DecodeThrows(doc.Pages[i][j])
PageText(page) ==
  Join([j \in 1..Len(page) |-> DecodeURIComponent(page[j])], <<" ">>)
PdfText(doc) ==
  Join([i \in 1..Len(doc.Pages) |-> PageText(doc.Pages[i])], <<" ">>)

\* The millisecond clock advances.
Tick ==
  /\ clock < MaxClock
  /\ clock' = clock + 1
  /\ UNCHANGED <<fs, pdfPc, pdfUrl, pdfData, tempPath, pdfWritten, pdfBuffer,
                 pdfResult>>
  /\ UNCHANGED <<ocrVars, genVars>>

\* extractTextFromPDF(pdfUrl), up to the await of axios.get.
PdfCall(p, url) ==
  /\ pdfPc[p] = "idle"
  /\ pdfUrl' = [pdfUrl EXCEPT ![p] = url]
  /\ pdfPc' = [pdfPc EXCEPT ![p] = "downloading"]
  /\ UNCHANGED <<clock, fs, pdfData, tempPath, pdfWritten, pdfBuffer, pdfResult>>
  /\ UNCHANGED <<ocrVars, genVars>>

\* axios.get rejects: the outer catch returns "".
DownloadFail_Rethrow(p) ==
  /\ pdfPc[p] = "downloading"
  /\ pdfData' = [pdfData EXCEPT ![p] = Failed]
  /\ pdfResult' = [pdfResult EXCEPT ![p] = Rejected("download failed")]
  /\ pdfPc' = [pdfPc EXCEPT ![p] = "done"]
  /\ UNCHANGED <<clock, fs, pdfUrl, tempPath, pdfWritten, pdfBuffer>>
  /\ UNCHANGED <<ocrVars, genVars>>
DownloadFail(p) ==
  /\ pdfPc[p] = "downloading"
  /\ pdfData' = [pdfData EXCEPT ![p] = Failed]
  /\ pdfResult' = [pdfResult EXCEPT ![p] = Fulfilled(<<>>)]
  /\ pdfPc' = [pdfPc EXCEPT ![p] = "done"]
  /\ UNCHANGED <<clock, fs, pdfUrl, tempPath, pdfWritten, pdfBuffer>>
  /\ UNCHANGED <<ocrVars, genVars>>

\* axios.get fulfils: tempPath from the clock, writeFileSync, new Promise,
\* the two handlers are registered and loadPDF starts.
DownloadOk(p) ==
  /\ pdfPc[p] = "downloading"
  /\ Served(pdfUrl[p]) # Failed
  /\ pdfData' = [pdfData EXCEPT ![p] = Served(pdfUrl[p])]
  /\ tempPath' = [tempPath EXCEPT ![p] = TempPath(clock)]
  /\ fs' = [fs EXCEPT ![TempPath(clock)] = Served(pdfUrl[p])]
  /\ pdfWritten' = [pdfWritten EXCEPT ![p] = TRUE]
  /\ pdfPc' = [pdfPc EXCEPT ![p] = "loading"]
  /\ UNCHANGED <<clock, pdfUrl, pdfBuffer, pdfResult>>
  /\ UNCHANGED <<ocrVars, genVars>>

\* axios.get fulfils and writeFileSync throws: the outer catch returns "".
WriteFail(p) ==
  /\ pdfPc[p] = "downloading"
  /\ Served(pdfUrl[p]) # Failed
  /\ pdfData' = [pdfData EXCEPT ![p] = Served(pdfUrl[p])]
  /\ tempPath' = [tempPath EXCEPT ![p] = TempPath(clock)]
  /\ pdfResult' = [pdfResult EXCEPT ![p] = Fulfilled(<<>>)]
  /\ pdfPc' = [pdfPc EXCEPT ![p] = "done"]
  /\ UNCHANGED <<clock, fs, pdfUrl, pdfWritten, pdfBuffer>>
  /\ UNCHANGED <<ocrVars, genVars>>

\* loadPDF reads what is at tempPath now; a missing file is a parser error
\* and the Promise rejects, outside the try block that returned it.
ReadFile(p) ==
  /\ pdfPc[p] = "loading"
  /\ IF fs[tempPath[p]] = NoFile
     THEN /\ pdfResult' = [pdfResult EXCEPT ![p] = Rejected("ENOENT")]
          /\ pdfPc' = [pdfPc EXCEPT ![p] = "done"]
          /\ UNCHANGED pdfBuffer
     ELSE /\ pdfBuffer' = [pdfBuffer EXCEPT ![p] = fs[tempPath[p]]]
          /\ pdfPc' = [pdfPc EXCEPT ![p] = "parsing"]
          /\ UNCHANGED pdfResult
  /\ UNCHANGED <<clock, fs, pdfUrl, pdfData, tempPath, pdfWritten>>
  /\ UNCHANGED <<ocrVars, genVars>>

\* pdfParser_dataError: reject(err.parserError).
DataError(p) ==
  /\ pdfPc[p] = "parsing"
  /\ pdfBuffer[p].kind = "garbage"
  /\ pdfResult' = [pdfResult EXCEPT ![p] = Rejected("parserError")]
  /\ pdfPc' = [pdfPc EXCEPT ![p] = "done"]
  /\ UNCHANGED <<clock, fs, pdfUrl, pdfData, tempPath, pdfWritten, pdfBuffer>>
  /\ UNCHANGED <<ocrVars, genVars>>

\* pdfParser_dataReady: assemble the text, unlinkSync, resolve; anything
\* thrown on the way rejects.
DataReady(p) ==
  /\ pdfPc[p] = "parsing"
  /\ pdfBuffer[p].kind = "pdf"
  /\ IF TextThrows(pdfBuffer[p])
     THEN /\ pdfResult' = [pdfResult EXCEPT ![p] = Rejected("URIError")]
          /\ UNCHANGED fs
     ELSE IF fs[tempPath[p]] = NoFile
     THEN /\ pdfResult' = [pdfResult EXCEPT ![p] = Rejected("ENOENT")]
          /\ UNCHANGED fs
     ELSE /\ fs' = [fs EXCEPT ![tempPath[p]] = NoFile]
          /\ pdfResult' =
               [pdfResult EXCEPT ![p] = Fulfilled(Trim(PdfText(pdfBuffer[p])))]
  /\ pdfPc' = [pdfPc EXCEPT ![p] = "done"]
  /\ UNCHANGED <<clock, pdfUrl, pdfData, tempPath, pdfWritten, pdfBuffer>>
  /\ UNCHANGED <<ocrVars, genVars>>

PdfNext ==
  \/ Tick
  \/ \E p \in Calls, url \in PdfUrls : PdfCall(p, url)
  \/ \E p \in Calls : DownloadFail(p)
  \/ \E p \in Calls : DownloadOk(p)
  \/ \E p \in Calls : WriteFail(p)
  \/ \E p \in Calls : ReadFile(p)
  \/ \E p \in Calls : DataError(p)
  \/ \E p \in Calls : DataReady(p)


\* ==================================================== extractTextFromImage
ImageUrls == {"https://h/scan.png", "https://h/photo.jpg"}

OcrKeys == {Undefined, Str(<<"K">>)}

\* URLSearchParams with the three appended fields, posted with the headers.
OcrRequest(key, url) ==
  [ url     |-> "https://api.ocr.space/parse/image",
    form    |-> << <<"url", url>>, <<"language", "eng">>,
                   <<"isOverlayRequired", "false">> >>,
    headers |-> [ apikey |-> key,
                  ContentType |-> "application/x-www-form-urlencoded" ],
    timeout |-> 20000 ]

ParsedResults(rs) == Obj([ParsedResults |-> Arr(rs)])
Parsed(s) == Obj([ParsedText |-> Str(s)])

\* Bodies a 2xx response of the OCR endpoint may carry.
OcrResponses ==
  { Undefined,
    Str(<<"o", "k">>),
    Obj([IsErroredOnProcessing |-> Str(<<"t", "r", "u", "e">>)]),
    Obj([ParsedResults |-> Null]),
    ParsedResults(<<>>),
    ParsedResults(<<Null>>),
    ParsedResults(<<Obj([ErrorMessage |-> Str(<<"E">>)])>>),
    ParsedResults(<<Obj([ParsedText |-> Num(7)])>>),
    ParsedResults(<<Parsed(<<>>)>>),
    ParsedResults(<<Parsed(<<" ", "\n">>)>>),
    ParsedResults(<<Parsed(<<" ", "H", "b", " ", "1", "2", "\n">>)>>),
    ParsedResults(<<Parsed(<<"N", "a">>), Parsed(<<"K">>)>>),
    ParsedResults(<<Parsed(<<>>), Parsed(<<"K">>)>>) }

\* Ways axios.post rejects.
OcrErrors == {"HTTP error", "network error", "timeout"}

\* catch (err) { ...; return "" }
OcrCatch(err) == Fulfilled(<<>>)

\* res.data.ParsedResults?.[0]?.ParsedText || ""
\* (res.data.ParsedResults throws when res.data is undefined or null)
ParsedText(data) ==
  OrElse(OptProp(OptIndex(Prop(data, "ParsedResults"), 0), "ParsedText"),
         Str(<<>>))

\* const text = ...; return text.trim();  with the catch around both.
OcrReturn_NoTrim(data) ==
  IF Nullish(data) THEN OcrCatch("TypeError")
  ELSE IF ParsedText(data).t # "string" THEN OcrCatch("TypeError")
  ELSE Fulfilled(ParsedText(data).v)
OcrReturn(data) ==
  IF Nullish(data) THEN OcrCatch("TypeError")
  ELSE IF ParsedText(data).t # "string" THEN OcrCatch("TypeError")
  ELSE Fulfilled(Trim(ParsedText(data).v))

\* extractTextFromImage(imageUrl), up to the await of axios.post.
OcrCall(p, url) ==
  /\ ocrPc[p] = "idle"
  /\ imageUrl' = [imageUrl EXCEPT ![p] = url]
  /\ ocrSent' = [ocrSent EXCEPT ![p] = Append(@, OcrRequest(OCR_SPACE_API_KEY, url))]
  /\ ocrPc' = [ocrPc EXCEPT ![p] = "awaiting"]
  /\ UNCHANGED <<OCR_SPACE_API_KEY, ocrResponse, ocrResult>>
  /\ UNCHANGED <<pdfVars, genVars>>

\* axios.post fulfils: the rest of the try block.
OcrResponse(p, data) ==
  /\ ocrPc[p] = "awaiting"
  /\ ocrResponse' = [ocrResponse EXCEPT ![p] = [ok |-> TRUE, data |-> data]]
  /\ ocrResult' = [ocrResult EXCEPT ![p] = OcrReturn(data)]
  /\ ocrPc' = [ocrPc EXCEPT ![p] = "done"]
  /\ UNCHANGED <<OCR_SPACE_API_KEY, imageUrl, ocrSent>>
  /\ UNCHANGED <<pdfVars, genVars>>

\* axios.post rejects: the catch block.
OcrFail(p, err) ==
  /\ ocrPc[p] = "awaiting"
  /\ ocrResponse' = [ocrResponse EXCEPT ![p] = [ok |-> FALSE, err |-> err]]
  /\ ocrResult' = [ocrResult EXCEPT ![p] = OcrCatch(err)]
  /\ ocrPc' = [ocrPc EXCEPT ![p] = "done"]
  /\ UNCHANGED <<OCR_SPACE_API_KEY, imageUrl, ocrSent>>
  /\ UNCHANGED <<pdfVars, genVars>>

OcrNext ==
  \/ \E p \in Calls, url \in ImageUrls : OcrCall(p, url)
  \/ \E p \in Calls, data \in OcrResponses : OcrResponse(p, data)
  \/ \E p \in Calls, err \in OcrErrors : OcrFail(p, err)

\* ========================================================= specifications
\* The three operations share no state: each is checked with the other two
\* at rest.  The credentials are read once, when the module is loaded.
InitPdf ==
  /\ clock = 0
  /\ fs = [path \in Paths |-> NoFile]
  /\ pdfPc = [p \in Calls |-> "idle"]
  /\ pdfUrl = [p \in Calls |-> ""]
  /\ pdfData = [p \in Calls |-> NoData]
  /\ tempPath = [p \in Calls |-> NoPath]
  /\ pdfWritten = [p \in Calls |-> FALSE]
  /\ pdfBuffer = [p \in Calls |-> NoData]
  /\ pdfResult = [p \in Calls |-> Pending]
  /\ OCR_SPACE_API_KEY = Undefined
  /\ ocrPc = [p \in Calls |-> "idle"]
  /\ imageUrl = [p \in Calls |-> ""]
  /\ ocrSent = [p \in Calls |-> <<>>]
  /\ ocrResponse = [p \in Calls |-> NoResponse]
  /\ ocrResult = [p \in Calls |-> Pending]
  /\ GEMINI_API_KEY = Undefined
  /\ genPc = "idle"
  /\ extractedText = Undefined
  /\ genSent = <<>>
  /\ genResponse = NoResponse
  /\ genResult = Pending

InitOcr ==
  /\ OCR_SPACE_API_KEY \in OcrKeys
  /\ ocrPc = [p \in Calls |-> "idle"]
  /\ imageUrl = [p \in Calls |-> ""]
  /\ ocrSent = [p \in Calls |-> <<>>]
  /\ ocrResponse = [p \in Calls |-> NoResponse]
  /\ ocrResult = [p \in Calls |-> Pending]
  /\ clock = 0
  /\ fs = [path \in Paths |-> NoFile]
  /\ pdfPc = [p \in Calls |-> "idle"]
  /\ pdfUrl = [p \in Calls |-> ""]
  /\ pdfData = [p \in Calls |-> NoData]
  /\ tempPath = [p \in Calls |-> NoPath]
  /\ pdfWritten = [p \in Calls |-> FALSE]
  /\ pdfBuffer = [p \in Calls |-> NoData]
  /\ pdfResult = [p \in Calls |-> Pending]
  /\ GEMINI_API_KEY = Undefined
  /\ genPc = "idle"
  /\ extractedText = Undefined
  /\ genSent = <<>>
  /\ genResponse = NoResponse
  /\ genResult = Pending

InitGen ==
  /\ GEMINI_API_KEY \in GenKeys
  /\ genPc = "idle"
  /\ extractedText = Undefined
  /\ genSent = <<>>
  /\ genResponse = NoResponse
  /\ genResult = Pending
  /\ clock = 0
  /\ fs = [path \in Paths |-> NoFile]
  /\ pdfPc = [p \in Calls |-> "idle"]
  /\ pdfUrl = [p \in Calls |-> ""]
  /\ pdfData = [p \in Calls |-> NoData]
  /\ tempPath = [p \in Calls |-> NoPath]
  /\ pdfWritten = [p \in Calls |-> FALSE]
  /\ pdfBuffer = [p \in Calls |-> NoData]
  /\ pdfResult = [p \in Calls |-> Pending]
  /\ OCR_SPACE_API_KEY = Undefined
  /\ ocrPc = [p \in Calls |-> "idle"]
  /\ imageUrl = [p \in Calls |-> ""]
  /\ ocrSent = [p \in Calls |-> <<>>]
  /\ ocrResponse = [p \in Calls |-> NoResponse]
  /\ ocrResult = [p \in Calls |-> Pending]

SpecPdf == InitPdf /\ [][PdfNext]_vars
SpecOcr == InitOcr /\ [][OcrNext]_vars
SpecGen == InitGen /\ [][GenNext]_vars

\* ================================================================= claims
\* The first candidate's first part's text of a response body, undefined
\* when any step of the path is absent.
FirstCandidateText(data) ==
  OptProp(OptIndex(OptProp(OptProp(OptIndex(OptProp(data, "candidates"), 0),
    "content"), "parts"), 0), "text")

\* The first parsed result's ParsedText of an OCR response body.
FirstParsedText(data) ==
  OptProp(OptIndex(OptProp(data, "ParsedResults"), 0), "ParsedText")

IsShortText(text) == Nullish(text) \/ Len(text.v) < MinTextLength

\* C1: extractTextFromPDF never rejects; every failure ends in "".
C1_PdfNeverRejects ==
  \A p \in Calls : pdfResult[p].state # "rejected"

\* C2 as stated: a missing or short text yields the warning and no remote
\* call whether or not GEMINI_API_KEY is set.
C2_WarningInEveryConfiguration ==
  (genPc # "idle" /\ IsShortText(extractedText)) =>
     /\ genSent = <<>>
     /\ genResult = Fulfilled([feedback |-> WarningMessage])

\* C2 amended: a missing or short text never causes a remote call; it
\* yields the warning when GEMINI_API_KEY is set and the fallback when it is
\* not; a text of exactly 30 characters is sent when the key is set.
C2_ShortTextShortCircuits ==
  /\ (genPc # "idle" /\ IsShortText(extractedText)) =>
        /\ genSent = <<>>
        /\ genPc = "done"
        /\ genResult =
             Fulfilled([feedback |-> IF Truthy(GEMINI_API_KEY)
                                     THEN WarningMessage ELSE FallbackMessage])
  /\ (/\ genPc # "idle"
      /\ Truthy(GEMINI_API_KEY)
      /\ ~Nullish(extractedText)
      /\ Len(extractedText.v) = MinTextLength) =>
        /\ Len(genSent) = 1
        /\ genResult # Fulfilled([feedback |-> WarningMessage])

C2_Witness ==
  /\ genPc = "done"
  /\ Truthy(GEMINI_API_KEY)
  /\ extractedText.t = "string"
  /\ Len(extractedText.v) = MinTextLength - 1
  /\ genResult = Fulfilled([feedback |-> WarningMessage])

\* C3: generateAIAnalysis never rejects, and completes with a feedback that
\* is the warning, the "no output" message, the fallback, or the first
\* candidate's first text part of the response.
C3_GenNeverRejects ==
  /\ genResult.state # "rejected"
  /\ genPc = "done" =>
       /\ genResult.state = "fulfilled"
       /\ DOMAIN genResult.value = {"feedback"}
       /\ \/ genResult.value.feedback \in
               {WarningMessage, NoOutputMessage, FallbackMessage}
          \/ /\ genResponse.ok
             /\ genResult.value.feedback = FirstCandidateText(genResponse.data)

C3_Witness ==
  /\ genPc = "done"
  /\ genResponse = [ok |-> FALSE, err |-> "timeout"]
  /\ genResult = Fulfilled([feedback |-> FallbackMessage])

\* C4: without GEMINI_API_KEY every call ends in the fallback record, with
\* no rejection and no remote call.
C4_MissingKeyFallback ==
  ~Truthy(GEMINI_API_KEY) =>
     /\ genSent = <<>>
     /\ genPc # "awaiting"
     /\ genResult.state # "rejected"
     /\ genPc = "done" => genResult = Fulfilled([feedback |-> FallbackMessage])

C4_Witness ==
  /\ genPc = "done"
  /\ ~Truthy(GEMINI_API_KEY)
  /\ extractedText.t = "string"
  /\ Len(extractedText.v) > MinTextLength
  /\ genResult = Fulfilled([feedback |-> FallbackMessage])

\* C5: the report text in a request's prompt is the first 3000 characters
\* of an input of 3000 or more, the whole input when it has 30 to 2999, and
\* never more than 3000 characters.
C5_PromptCarriesPrefix ==
  \A i \in 1..Len(genSent) :
    LET prompt == genSent[i].body.contents[1].parts[1].text
        report == SubSeq(prompt, 2, Len(prompt) - 1)
        input  == extractedText.v
    IN  /\ prompt[1] = PromptHead
        /\ prompt[Len(prompt)] = "\n"
        /\ Len(input) >= MinTextLength
        /\ Len(report) <= TextLimit
        /\ Len(input) >= TextLimit => report = SubSeq(input, 1, TextLimit)
        /\ Len(input) < TextLimit => report = input

C5_Witness ==
  /\ Len(genSent) = 1
  /\ Len(extractedText.v) > TextLimit
  /\ Len(genSent[1].body.contents[1].parts[1].text) = TextLimit + 2

\* C6: after a successful remote call the feedback is the first candidate's
\* first text part when that is non-empty, and the "no output" message
\* otherwise, never the fallback.
C6_NoOutputOnEmptyResponse ==
  (genPc = "done" /\ genResponse.ok) =>
     /\ genResult.state = "fulfilled"
     /\ genResult.value.feedback # FallbackMessage
     /\ genResult.value.feedback =
          IF Truthy(FirstCandidateText(genResponse.data))
          THEN FirstCandidateText(genResponse.data)
          ELSE NoOutputMessage

C6_Witness ==
  /\ genPc = "done"
  /\ genResponse = [ok |-> TRUE, data |-> Candidates(<<>>)]
  /\ genResult = Fulfilled([feedback |-> NoOutputMessage])

\* C7: a call whose download fails returns "", writes no scratch file and
\* never starts the parser.
C7_FailedDownloadLeavesNothing ==
  \A p \in Calls :
    pdfData[p] = Failed =>
      /\ pdfPc[p] = "done"
      /\ pdfResult[p] = Fulfilled(<<>>)
      /\ ~pdfWritten[p]
      /\ tempPath[p] = NoPath
      /\ pdfBuffer[p] = NoData

C7_Witness ==
  \E p \in Calls :
    /\ pdfPc[p] = "done"
    /\ pdfData[p] = Failed
    /\ pdfUrl[p] = "https://down/x.pdf"
    /\ pdfResult[p] = Fulfilled(<<>>)

\* C8: extractTextFromImage never rejects, sends at most one request, and
\* returns the trimmed ParsedText of the first parsed result when the call
\* succeeds with such a text, and "" in every other case.
C8_OcrTextOrEmpty ==
  \A p \in Calls :
    /\ ocrResult[p].state # "rejected"
    /\ Len(ocrSent[p]) <= 1
    /\ ocrPc[p] = "done" =>
         /\ Len(ocrSent[p]) = 1
         /\ ocrResult[p].state = "fulfilled"
         /\ ocrResult[p].value =
              IF ocrResponse[p].ok
                 /\ FirstParsedText(ocrResponse[p].data).t = "string"
              THEN Trim(FirstParsedText(ocrResponse[p].data).v)
              ELSE <<>>

C8_Witness ==
  \E p \in Calls :
    /\ ocrPc[p] = "done"
    /\ ocrResponse[p] =
         [ok |-> TRUE,
          data |-> ParsedResults(<<Parsed(<<" ", "H", "b", " ", "1", "2", "\n">>)>>)]
    /\ ocrResult[p] = Fulfilled(<<"H", "b", " ", "1", "2">>)

\* C9: once a call that wrote a scratch file has completed, the file is gone.
C9_ScratchFileGone ==
  \A p \in Calls :
    (pdfPc[p] = "done" /\ pdfWritten[p]) => fs[tempPath[p]] = NoFile

\* C10: no two in-flight calls share a scratch path, and each call parses
\* the document it downloaded.
C10_ScratchPathsDistinct ==
  /\ \A p, q \in Calls :
       (/\ p # q
        /\ pdfPc[p] \in {"loading", "parsing"}
        /\ pdfPc[q] \in {"loading", "parsing"}) => tempPath[p] # tempPath[q]
  /\ \A p \in Calls : pdfPc[p] = "parsing" => pdfBuffer[p] = pdfData[p]

====
